---- MODULE Spec2Model ----
(***************************************************************************)
(* Model of the browser agent: the BrowserSession singleton (session.py),  *)
(* the four function tools built on it (browser_tools.py) and the          *)
(* coroutines that call them.  Every coroutine runs on one asyncio event   *)
(* loop: code between two suspending awaits is one atomic step, so each    *)
(* action below is "a call up to its first suspension" or "the resumption  *)
(* of one await up to the next suspension or the return".                  *)
(*                                                                         *)
(* The Stagehand client and its page are external objects.  Their calls    *)
(* (init, close, goto, act, observe, title) suspend the caller and then    *)
(* either return or raise; which one is the environment's choice.  A       *)
(* client's page attribute is present exactly when its init() has          *)
(* returned.                                                               *)
(***************************************************************************)
EXTENDS Integers, Sequences, FiniteSets, TLC

\* ---------------------------------------------------------------- bounds
MaxClients == 2      \* Stagehand(...) constructions explored in one run
MaxHist == 4         \* completed calls recorded for a sequential caller
MaxElements == 1     \* longest list page.observe() returns

\* ------------------------------------------------------------- constants
None == 0                                   \* Python None, for object references
NoneStr == "<None>"                         \* Python None, in an Optional[str] field
Tasks == {"A", "B"}                         \* coroutines sharing browser_session
Urls == {"https://a.com", "https://a.com/done"}
Instructions == {"click the submit button"}
ActTimeoutMs == 10000

\* classes.py: the members of the ActionType enumeration
ActionType == [NAVIGATE |-> "navigate", CLICK |-> "click", TYPE |-> "type"]

\* classes.py: BrowserConfig defaults
BrowserConfig == [headless |-> FALSE, viewport_width |-> 1920,
                  viewport_height |-> 1080, timeout |-> 5000]

\* ------------------------------------------------------------ exceptions
Exc(type, msg) == [type |-> type, msg |-> msg]
InitError == Exc("Exception", "Initialization failed")
CloseError == Exc("RuntimeError", "Close failed")
GotoError == Exc("Exception", "Navigation failed")
ActError == Exc("Exception", "Element not found")
ObserveError == Exc("Exception", "Observe failed")
TitleError == Exc("Exception", "Title failed")
\* attribute access on None, or on an enumeration without that member
NoneAttrError(attr) == Exc("AttributeError",
                           "'NoneType' object has no attribute '" \o attr \o "'")
EnumAttrError(member) == Exc("AttributeError", member)
\* str(e): the text of the exception
Str(e) == e.msg

\* -------------------------------------------------------------- variables
VARIABLES
    stagehand,      \* browser_session.stagehand: None or a client
    page,           \* browser_session.page: None or a page
    config,         \* browser_session.config
    clients,        \* the clients constructed so far: state, what each was built from
    pageUrl,        \* page.url of each client's page
    calls,          \* how often Stagehand(), init() and close() were invoked
    tasks,          \* per coroutine: the call it is in, where, and its locals
    hist,           \* the calls a sequential caller has completed, in order
    handlers        \* per coroutine: the chat callback of main.py it runs

vars == <<stagehand, page, config, clients, pageUrl, calls, tasks, hist, handlers>>

\* The program state as one record, so that the synchronous part of a step
\* (raise, handler, nested get_page) can be composed as functions on it.
State == [stagehand |-> stagehand, page |-> page, config |-> config,
          clients |-> clients, pageUrl |-> pageUrl, calls |-> calls,
          tasks |-> tasks]

Commit(s) ==
    /\ stagehand' = s.stagehand
    /\ page' = s.page
    /\ config' = s.config
    /\ clients' = s.clients
    /\ pageUrl' = s.pageUrl
    /\ calls' = s.calls
    /\ tasks' = s.tasks

\* ------------------------------------------------------------ task records
NoRet == [kind |-> "none"]
Value(v) == [kind |-> "value", value |-> v]
Raised(e) == [kind |-> "raise", exc |-> e]
NoExc == Exc("", "")
NoRes == [kind |-> "none"]

\* op(arg): the call; pc: the await it is suspended in; aw: the client whose
\* init() or close() it awaits; pg, urlBefore, cu, res, exc: the locals page,
\* current_url_before, current_url, result/elements and e; ret: the outcome
\* of the call; thrown: the exceptions the awaited external calls raised
\* into this call.
IdleTask == [op |-> "none", arg |-> "", pc |-> "idle", aw |-> None, pg |-> None,
             urlBefore |-> "", cu |-> "", res |-> NoRes, exc |-> NoExc,
             ret |-> NoRet, thrown |-> {}, acts |-> <<>>]

\* a coroutine ends: its locals die, its outcome is what the caller sees
Finish(s, t, outcome) ==
    [s EXCEPT !.tasks[t] = [IdleTask EXCEPT !.op = s.tasks[t].op,
                                            !.arg = s.tasks[t].arg,
                                            !.thrown = s.tasks[t].thrown,
                                            !.acts = s.tasks[t].acts,
                                            !.ret = outcome]]

\* an awaited external call raises e into task t
Throw(s, t, e) == [s EXCEPT !.tasks[t].thrown = @ \cup {e}]

Suspend(s, t, pc) == [s EXCEPT !.tasks[t].pc = pc]

\* ------------------------------------------------------ the Stagehand client
\* a constructor call that leaves the DOM-settle timeout at a fixed value
NewClient_fixed_timeout(cfg) ==
    [state |-> "starting", shutdown |-> FALSE,
     dom_settle_timeout_ms |-> 30000,
     headless |-> cfg.headless,
     width |-> cfg.viewport_width,
     height |-> cfg.viewport_height]

NewClient(cfg) == [state |-> "starting", shutdown |-> FALSE,
                   dom_settle_timeout_ms |-> cfg.timeout,
                   headless |-> cfg.headless,
                   width |-> cfg.viewport_width,
                   height |-> cfg.viewport_height]

\* stagehand.page: the client's page once init() has returned
PageOf(s, c) ==
    IF s.clients[c].state \in {"started", "closed", "close_failed"} THEN c ELSE None


\* ------------------------------------------------ BrowserSession (session.py)
\* get_page() without the guard: a client is constructed on every call
get_page_call_always_constructs(s) ==
    LET c == Len(s.clients) + 1
    IN  [susp |-> TRUE, aw |-> c, value |-> None,
         s |-> [s EXCEPT !.stagehand = c,
                         !.clients = Append(@, NewClient(s.config)),
                         !.pageUrl = Append(@, "about:blank"),
                         !.calls.ctor = @ + 1,
                         !.calls.init = @ + 1]]

\* get_page() guarded by the page instead of the client
get_page_call_checks_page(s) ==
    IF s.page = None
    THEN get_page_call_always_constructs(s)
    ELSE [susp |-> FALSE, aw |-> None, value |-> s.page, s |-> s]

\* get_page() from its call to the await of init(), or to its return when a
\* client is already referenced.  The client is stored in self.stagehand
\* before init() is awaited.
get_page_call(s) ==
    IF s.stagehand = None
    THEN LET c == Len(s.clients) + 1
         IN  [susp |-> TRUE, aw |-> c, value |-> None,
              s |-> [s EXCEPT !.stagehand = c,
                              !.clients = Append(@, NewClient(s.config)),
                              !.pageUrl = Append(@, "about:blank"),
                              !.calls.ctor = @ + 1,
                              !.calls.init = @ + 1]]
    ELSE [susp |-> FALSE, aw |-> None, value |-> s.page, s |-> s]

\* get_page() with init() wrapped in an except block that swallows the error
get_page_resume_swallows(s, aw, ok) ==
    IF ~ok
    THEN [raised |-> FALSE, exc |-> NoExc, value |-> s.page,
          s |-> [s EXCEPT !.clients[aw].state =
                              IF @ = "starting" THEN "failed" ELSE @]]
    ELSE LET s1 == [s EXCEPT !.clients[aw].state =
                                 IF @ = "starting" THEN "started" ELSE @]
         IN  [raised |-> FALSE, exc |-> NoExc, value |-> PageOf(s1, s1.stagehand),
              s |-> [s1 EXCEPT !.page = PageOf(s1, s1.stagehand)]]

\* get_page() resumed when init() of client aw has returned (ok) or raised:
\* self.page = self.stagehand.page reads self.stagehand again.
get_page_resume(s, aw, ok) ==
    IF ~ok
    THEN [raised |-> TRUE, exc |-> InitError, value |-> None,
          s |-> [s EXCEPT !.clients[aw].state =
                              IF @ = "starting" THEN "failed" ELSE @]]
    ELSE LET s1 == [s EXCEPT !.clients[aw].state =
                                 IF @ = "starting" THEN "started" ELSE @]
         IN  IF s1.stagehand = None
             THEN [raised |-> TRUE, exc |-> NoneAttrError("page"),
                   value |-> None, s |-> s1]
             ELSE LET p == PageOf(s1, s1.stagehand)
                  IN  [raised |-> FALSE, exc |-> NoExc, value |-> p,
                       s |-> [s1 EXCEPT !.page = p]]

\* close() requesting a shutdown without looking at self.stagehand
close_call_unguarded(s) ==
    IF s.stagehand # None
    THEN [susp |-> TRUE, aw |-> s.stagehand,
          s |-> [s EXCEPT !.clients[s.stagehand].shutdown = TRUE,
                          !.calls.close = @ + 1]]
    ELSE [susp |-> FALSE, aw |-> None,
          s |-> [s EXCEPT !.stagehand = None, !.page = None,
                          !.calls.close = @ + 1]]

\* close(): the branch taken at the call
close_call(s) ==
    IF s.stagehand # None
    THEN LET c == s.stagehand
         IN  [susp |-> TRUE, aw |-> c,
              s |-> [s EXCEPT !.clients[c].shutdown = TRUE,
                              !.calls.close = @ + 1]]
    ELSE [susp |-> FALSE, aw |-> None,
          s |-> [s EXCEPT !.stagehand = None, !.page = None]]

\* a finally block that forgets the client
close_finally_keeps_client(s) == [s EXCEPT !.page = None]

\* close(): the finally block, run when stagehand.close() returned or raised
close_finally(s) == [s EXCEPT !.stagehand = None, !.page = None]

\* close() with the cleanup after the await instead of in a finally block
close_resume_skips_cleanup(s, aw, ok) ==
    IF ok THEN close_finally([s EXCEPT !.clients[aw].state = "closed"])
    ELSE [s EXCEPT !.clients[aw].state = "close_failed"]

\* close() resumed when stagehand.close() of client aw returned or raised
close_resume(s, aw, ok) ==
    close_finally([s EXCEPT !.clients[aw].state =
                                IF ok THEN "closed" ELSE "close_failed"])

\* is_active() looking at the client only
is_active_value_client_only(s) == s.stagehand # None

\* is_active(): the value returned
is_active_value(s) == s.stagehand # None /\ s.page # None

\* ------------------------------------------ ExecutionAction (classes.py)
ExecutionAction(current_url, page_title, success, action_type, instruction, execution_details, page_changed, result_data, action_taken) ==
    [current_url |-> current_url, page_title |-> page_title,
     success |-> success, action_type |-> action_type,
     instruction |-> instruction, execution_details |-> execution_details,
     page_changed |-> page_changed, result_data |-> result_data,
     action_taken |-> action_taken]

\* page.title() of a page showing url
TitleOf(url) == "Title of " \o url

\* the enumeration member each tool names in its result
MemberOf(op) ==
    CASE op = "navigate_to" -> "NAVIGATE"
      [] op = "click_element" -> "CLICK"
      [] op = "type_text" -> "TYPE"
      [] op = "observe_page" -> "OBSERVE"

HasMember(m) == m \in DOMAIN ActionType

FoundDetail(n) == "Found " \o ToString(n) \o " observable elements on the page"

\* the try blocks' results with page_changed computed some other way
SuccessResultWith(tk, title, changed) ==
    CASE tk.op = "navigate_to" ->
            ExecutionAction(tk.cu, title, TRUE, ActionType[MemberOf(tk.op)],
                            "navigate to " \o tk.arg, NoneStr, changed,
                            NoRes, NoneStr)
      [] tk.op \in {"click_element", "type_text"} ->
            ExecutionAction(tk.cu, title, tk.res.success,
                            ActionType[MemberOf(tk.op)], tk.arg,
                            tk.res.message, changed, tk.res, tk.res.action)

\* page_changed left at its default in every try block
SuccessResult_page_changed_default(tk, title) ==
    SuccessResultWith(tk, title, FALSE)

\* page_changed computed from the URLs in every try block
SuccessResult_page_changed_by_url(tk, title) ==
    SuccessResultWith(tk, title, tk.urlBefore # tk.cu)

\* try blocks that report success whatever the library's result says
SuccessResult_ignores_library_success(tk, title) ==
    CASE tk.op = "navigate_to" -> SuccessResultWith(tk, title, TRUE)
      [] tk.op = "click_element" ->
            [SuccessResultWith(tk, title, tk.urlBefore # tk.cu)
                 EXCEPT !.success = TRUE]
      [] tk.op = "type_text" ->
            [SuccessResultWith(tk, title, FALSE) EXCEPT !.success = TRUE]
      [] tk.op = "observe_page" ->
            ExecutionAction(tk.cu, title, TRUE, ActionType[MemberOf(tk.op)],
                            tk.arg, FoundDetail(tk.res.n), FALSE, tk.res,
                            "Observed page elements with instruction: "
                                \o tk.arg)

\* the result built after the try block's last await
SuccessResult(tk, title) ==
    CASE tk.op = "navigate_to" ->
            ExecutionAction(tk.cu, title, TRUE, ActionType[MemberOf(tk.op)],
                            "navigate to " \o tk.arg, NoneStr, TRUE,
                            NoRes, NoneStr)
      [] tk.op = "click_element" ->
            ExecutionAction(tk.cu, title, tk.res.success,
                            ActionType[MemberOf(tk.op)], tk.arg,
                            tk.res.message, tk.urlBefore # tk.cu,
                            tk.res, tk.res.action)
      [] tk.op = "type_text" ->
            ExecutionAction(tk.cu, title, tk.res.success,
                            ActionType[MemberOf(tk.op)], tk.arg,
                            tk.res.message, FALSE, tk.res, tk.res.action)
      [] tk.op = "observe_page" ->
            ExecutionAction(tk.cu, title, TRUE, ActionType[MemberOf(tk.op)],
                            tk.arg, FoundDetail(tk.res.n), FALSE, tk.res,
                            "Observed page elements with instruction: "
                                \o tk.arg)

\* an except block that passes on whatever result the try block had bound
FailureResult_keeps_result(tk, title) ==
    ExecutionAction(tk.cu, title, FALSE, ActionType[MemberOf(tk.op)],
                    tk.arg, Str(tk.exc), FALSE, tk.res, NoneStr)

\* the result built by the except block of click, type and observe
FailureResult(tk, title) ==
    ExecutionAction(tk.cu, title, FALSE, ActionType[MemberOf(tk.op)],
                    tk.arg, Str(tk.exc), FALSE, NoRes, NoneStr)

\* an except block of navigate_to that reports the requested URL as current
NavigateFailure_reports_requested_url(tk, e) ==
    ExecutionAction(tk.arg, NoneStr, FALSE, ActionType[MemberOf(tk.op)],
                    "navigate to " \o tk.arg, Str(e), FALSE, NoRes, NoneStr)

\* the result built by the except block of navigate_to
NavigateFailure(tk, e) ==
    ExecutionAction(NoneStr, NoneStr, FALSE, ActionType[MemberOf(tk.op)],
                    "navigate to " \o tk.arg, Str(e), FALSE, NoRes, NoneStr)

\* ------------------------------------------------- tools (browser_tools.py)
\* the except block after get_page() has returned page p
ExcGot(s, t, e, p) ==
    IF p = None
    THEN Finish(s, t, Raised(NoneAttrError("url")))
    ELSE [s EXCEPT !.tasks[t].pc = "exc_title", !.tasks[t].exc = e,
                   !.tasks[t].pg = p, !.tasks[t].cu = s.pageUrl[p]]

\* the except block of click, type and observe, entered with exception e
ExcEnter(s, t, e) ==
    LET g == get_page_call(s)
    IN  IF g.susp
        THEN [g.s EXCEPT !.tasks[t].pc = "exc_init", !.tasks[t].exc = e,
                         !.tasks[t].aw = g.aw]
        ELSE ExcGot(g.s, t, e, g.value)

\* tools that drop the session's references when their try block raises
TryRaise_drops_session(s, t, e) ==
    LET s0 == [s EXCEPT !.stagehand = None, !.page = None]
    IN  IF s0.tasks[t].op = "navigate_to"
        THEN Finish(s0, t, Value(NavigateFailure(s0.tasks[t], e)))
        ELSE ExcEnter(s0, t, e)

\* exception e raised inside the try block of the tool that task t runs
TryRaise(s, t, e) ==
    IF s.tasks[t].op = "navigate_to"
    THEN Finish(s, t, Value(NavigateFailure(s.tasks[t], e)))
    ELSE ExcEnter(s, t, e)

\* the try block after get_page() has returned page p
TryGot(s, t, p) ==
    LET op == s.tasks[t].op
    IN  CASE op = "navigate_to" ->
                IF p = None THEN TryRaise(s, t, NoneAttrError("goto"))
                ELSE [s EXCEPT !.tasks[t].pg = p, !.tasks[t].pc = "goto"]
          [] op = "click_element" ->
                IF p = None THEN TryRaise(s, t, NoneAttrError("url"))
                ELSE [s EXCEPT !.tasks[t].pg = p,
                               !.tasks[t].urlBefore = s.pageUrl[p],
                               !.tasks[t].pc = "sleep1"]
          [] op = "type_text" ->
                [s EXCEPT !.tasks[t].pg = p, !.tasks[t].pc = "sleep1"]
          [] op = "observe_page" ->
                IF p = None THEN TryRaise(s, t, NoneAttrError("observe"))
                ELSE [s EXCEPT !.tasks[t].pg = p, !.tasks[t].pc = "observe"]

\* a tool from its call to its first suspension
ToolCall(s, t) ==
    LET g == get_page_call(s)
    IN  IF g.susp
        THEN [g.s EXCEPT !.tasks[t].pc = "try_init", !.tasks[t].aw = g.aw]
        ELSE TryGot(g.s, t, g.value)

\* current_url=page.url, then the await of page.title()
ReadUrl(s, t, pc) ==
    [s EXCEPT !.tasks[t].cu = s.pageUrl[s.tasks[t].pg], !.tasks[t].pc = pc]

\* page.act(instruction, timeout_ms=...) is invoked and awaited
ActCall(s, t, instruction, timeout_ms) ==
    [s EXCEPT !.tasks[t].pc = "act",
              !.tasks[t].acts = Append(@, [instruction |-> instruction,
                                           timeout_ms |-> timeout_ms])]

\* the tool resumed after an asyncio.sleep
AfterSleep(s, t) ==
    LET tk == s.tasks[t]
    IN  CASE tk.pc = "sleep1" ->
                IF tk.pg = None THEN TryRaise(s, t, NoneAttrError("act"))
                ELSE ActCall(s, t, tk.arg, ActTimeoutMs)
          [] tk.pc \in {"sleep", "sleep2"} -> ReadUrl(s, t, "title")

\* the tool resumed after page.title() returned title
AfterTitle(s, t, title) ==
    LET tk == s.tasks[t]
    IN  CASE tk.pc = "title" ->
                IF HasMember(MemberOf(tk.op))
                THEN Finish(s, t, Value(SuccessResult(tk, title)))
                ELSE TryRaise(s, t, EnumAttrError(MemberOf(tk.op)))
          [] tk.pc = "exc_title" ->
                IF HasMember(MemberOf(tk.op))
                THEN Finish(s, t, Value(FailureResult(tk, title)))
                ELSE Finish(s, t, Raised(EnumAttrError(MemberOf(tk.op))))

\* page.title() raised
TitleRaised(s, t) ==
    IF s.tasks[t].pc = "title"
    THEN TryRaise(s, t, TitleError)
    ELSE Finish(s, t, Raised(TitleError))


\* a tool or get_page() resumed when the init() it awaits returned or raised
AfterInit(s, t, ok) ==
    LET tk == s.tasks[t]
        r == get_page_resume(s, tk.aw, ok)
    IN  CASE tk.pc = "init" ->
                Finish(r.s, t, IF r.raised THEN Raised(r.exc) ELSE Value(r.value))
          [] tk.pc = "try_init" ->
                IF r.raised THEN TryRaise(r.s, t, r.exc)
                ELSE TryGot(r.s, t, r.value)
          [] tk.pc = "exc_init" ->
                IF r.raised THEN Finish(r.s, t, Raised(r.exc))
                ELSE ExcGot(r.s, t, tk.exc, r.value)

\* ---------------------------------------------------------------- actions
\* ---------------------------------------------------------------------
\* The chat callbacks of main.py. Sending and updating a chat message are
\* awaits that return; Runner.run is the agent runtime, which calls tools
\* while it runs and then returns a final output or raises.

\* result.final_output of a run that returned
FinalOutput == "Found the cheapest headphones"

\* what Runner.run raises when it raises
RunErrors == {Exc("MaxTurnsExceeded", "Max turns (20) exceeded"),
              Exc("APIConnectionError", "Connection error.")}

StartingText == "Starting browser automation..."
WorkingText == "Browser agent is working on your task..."
SuccessMsg(output) == "Task Completed Successfully! Result: " \o output
ErrorMsg(e) == "An error occurred during automation: Error: " \o Str(e)
ClosedMsg == "Browser session closed safely. You can refresh the page to start a new session."
CloseErrorMsg(e) == "Error closing browser: " \o Str(e)
GoodbyeMsg == "Browser session closed safely. Thanks for using Browser Agent!"
CleanupPrint(e) == "Error during cleanup: " \o Str(e)

\* a callback: which one (h), where it is suspended (pc), the chat messages
\* it has sent (out), what it printed, how Runner.run and close() ended,
\* the exception it caught (err), whether it called os.kill, how it ended
NoHandler == [h |-> "none", pc |-> "idle", out |-> <<>>, printed |-> <<>>,
              run |-> "none", closed |-> "none", err |-> NoExc,
              kills |-> FALSE, ret |-> "none"]

Handler(name, pc) == [NoHandler EXCEPT !.h = name, !.pc = pc]

\* main() without its except block: the error of the run leaves the handler
main_after_run_no_except(h, ok, e) ==
    IF ok
    THEN [h EXCEPT !.run = "returned", !.pc = "final_send"]
    ELSE [h EXCEPT !.run = "raised", !.err = e, !.pc = "done", !.ret = "raised"]

\* main() resumed by Runner.run: build the final message and await its
\* send(), or enter the except block and await the error message's send()
main_after_run(h, ok, e) ==
    IF ok
    THEN [h EXCEPT !.run = "returned", !.pc = "final_send"]
    ELSE [h EXCEPT !.run = "raised", !.err = e, !.pc = "error_send"]

\* on_action() resumed by close()
on_action_after_close(h, ok, e) ==
    IF ok
    THEN [h EXCEPT !.closed = "returned", !.pc = "closed_send"]
    ELSE [h EXCEPT !.closed = "raised", !.err = e, !.pc = "close_error_send"]

\* stop() with os.kill after the send instead of in a finally block
stop_after_close_kill_on_success(h, ok, e) ==
    IF ok
    THEN [h EXCEPT !.closed = "returned", !.pc = "goodbye_send"]
    ELSE [h EXCEPT !.closed = "raised", !.err = e,
                   !.printed = Append(@, CleanupPrint(e)),
                   !.pc = "done", !.ret = "returned"]

\* stop() resumed by close(): await the goodbye message's send(), or print
\* the error and run the finally block
stop_after_close(h, ok, e) ==
    IF ok
    THEN [h EXCEPT !.closed = "returned", !.pc = "goodbye_send"]
    ELSE [h EXCEPT !.closed = "raised", !.err = e,
                   !.printed = Append(@, CleanupPrint(e)),
                   !.kills = TRUE, !.pc = "done", !.ret = "returned"]

after_close(h, ok, e) ==
    IF h.h = "on_action" THEN on_action_after_close(h, ok, e)
    ELSE stop_after_close(h, ok, e)

SendPcs == {"progress_send", "progress_update", "final_send", "error_send",
            "closed_send", "close_error_send", "goodbye_send"}

\* a callback resumed by the send() or update() it awaited
after_send(h) ==
    CASE h.pc = "progress_send" ->
             [h EXCEPT !.out = Append(@, StartingText), !.pc = "progress_update"]
      [] h.pc = "progress_update" ->
             [h EXCEPT !.out[1] = WorkingText, !.pc = "run"]
      [] h.pc = "final_send" ->
             [h EXCEPT !.out = Append(@, SuccessMsg(FinalOutput)),
                       !.pc = "done", !.ret = "returned"]
      [] h.pc = "error_send" ->
             [h EXCEPT !.out = Append(@, ErrorMsg(h.err)),
                       !.pc = "done", !.ret = "returned"]
      [] h.pc = "closed_send" ->
             [h EXCEPT !.out = Append(@, ClosedMsg),
                       !.pc = "done", !.ret = "returned"]
      [] h.pc = "close_error_send" ->
             [h EXCEPT !.out = Append(@, CloseErrorMsg(h.err)),
                       !.pc = "done", !.ret = "returned"]
      [] h.pc = "goodbye_send" ->
             [h EXCEPT !.out = Append(@, GoodbyeMsg), !.kills = TRUE,
                       !.pc = "done", !.ret = "returned"]

TypeOK ==
    /\ stagehand \in 0 .. Len(clients)
    /\ page \in 0 .. Len(clients)
    /\ Len(clients) = calls.ctor
    /\ Len(pageUrl) = calls.ctor
    /\ \A t \in Tasks : tasks[t].pc \in
           {"idle", "init", "shutdown", "try_init", "exc_init", "goto", "sleep",
            "sleep1", "sleep2", "act", "observe", "title", "exc_title"}

Init ==
    /\ stagehand = None
    /\ page = None
    /\ config = BrowserConfig
    /\ clients = <<>>
    /\ pageUrl = <<>>
    /\ calls = [ctor |-> 0, init |-> 0, close |-> 0]
    /\ tasks = [t \in Tasks |-> IdleTask]
    /\ hist = <<>>
    /\ handlers = [t \in Tasks |-> NoHandler]

\* the state in which task t has just been called with op(arg)
Begin(t, op, arg) ==
    [State EXCEPT !.tasks[t] = [IdleTask EXCEPT !.op = op, !.arg = arg,
                                               !.pc = "running"]]

\* a step is taken only while the run stays within MaxClients constructions
Step(s) == Len(s.clients) <= MaxClients /\ Commit(s)

At(t, pcs) == tasks[t].pc \in pcs

get_page(t) ==
    /\ At(t, {"idle"})
    /\ LET g == get_page_call(Begin(t, "get_page", ""))
       IN  Step(IF g.susp
                THEN [g.s EXCEPT !.tasks[t].pc = "init", !.tasks[t].aw = g.aw]
                ELSE Finish(g.s, t, Value(g.value)))

close(t) ==
    /\ At(t, {"idle"})
    /\ LET g == close_call(Begin(t, "close", ""))
       IN  Step(IF g.susp
                THEN [g.s EXCEPT !.tasks[t].pc = "shutdown", !.tasks[t].aw = g.aw]
                ELSE Finish(g.s, t, Value(None)))

is_active(t) ==
    /\ At(t, {"idle"})
    /\ LET s == Begin(t, "is_active", "")
       IN  Step(Finish(s, t, Value(is_active_value(s))))

navigate_to(t, url) ==
    /\ At(t, {"idle"})
    /\ Step(ToolCall(Begin(t, "navigate_to", url), t))

click_element(t, instruction) ==
    /\ At(t, {"idle"})
    /\ Step(ToolCall(Begin(t, "click_element", instruction), t))

type_text(t, instruction) ==
    /\ At(t, {"idle"})
    /\ Step(ToolCall(Begin(t, "type_text", instruction), t))

observe_page(t, instruction) ==
    /\ At(t, {"idle"})
    /\ Step(ToolCall(Begin(t, "observe_page", instruction), t))

InitReturns(t) ==
    /\ At(t, {"init", "try_init", "exc_init"})
    /\ Step(AfterInit(State, t, TRUE))

InitRaises(t) ==
    /\ At(t, {"init", "try_init", "exc_init"})
    /\ Step(AfterInit(Throw(State, t, InitError), t, FALSE))

ShutdownReturns(t) ==
    /\ At(t, {"shutdown"})
    /\ Step(Finish(close_resume(State, tasks[t].aw, TRUE), t, Value(None)))

ShutdownRaises(t) ==
    /\ At(t, {"shutdown"})
    /\ Step(Finish(close_resume(Throw(State, t, CloseError), tasks[t].aw, FALSE),
                    t, Raised(CloseError)))

GotoReturns(t) ==
    /\ At(t, {"goto"})
    /\ Step([State EXCEPT !.pageUrl[tasks[t].pg] = tasks[t].arg,
                          !.tasks[t].pc = "sleep"])

GotoRaises(t) ==
    /\ At(t, {"goto"})
    /\ Step(TryRaise(Throw(State, t, GotoError), t, GotoError))

SleepEnds(t) ==
    /\ At(t, {"sleep", "sleep1", "sleep2"})
    /\ Step(AfterSleep(State, t))

ActReturns(t, success, url) ==
    /\ At(t, {"act"})
    /\ Step([State EXCEPT
                !.pageUrl[tasks[t].pg] = url,
                !.tasks[t].res = [kind |-> "act", success |-> success,
                                  message |-> IF success THEN "Action performed"
                                              ELSE "Action failed",
                                  action |-> "click", timeout_ms |-> ActTimeoutMs],
                !.tasks[t].pc = "sleep2"])

ActRaises(t) ==
    /\ At(t, {"act"})
    /\ Step(TryRaise(Throw(State, t, ActError), t, ActError))

ObserveReturns(t, n) ==
    /\ At(t, {"observe"})
    /\ Step([State EXCEPT !.tasks[t].res = [kind |-> "elements", n |-> n],
                          !.tasks[t].pc = "sleep"])

ObserveRaises(t) ==
    /\ At(t, {"observe"})
    /\ Step(TryRaise(Throw(State, t, ObserveError), t, ObserveError))

TitleReturns(t) ==
    /\ At(t, {"title", "exc_title"})
    /\ Step(AfterTitle(State, t, TitleOf(pageUrl[tasks[t].pg])))

TitleRaises(t) ==
    /\ At(t, {"title", "exc_title"})
    /\ Step(TitleRaised(Throw(State, t, TitleError), t))

Quiet == UNCHANGED <<hist, handlers>>

\* The agent runtime (task A) calls the tools and the session one call after
\* the other, while the user's "Close Browser" callback (task B) may run
\* close() at any await.
Next ==
    \/ \E url \in Urls : navigate_to("A", url) /\ Quiet
    \/ \E i \in Instructions : click_element("A", i) /\ Quiet
    \/ \E i \in Instructions : type_text("A", i) /\ Quiet
    \/ \E i \in Instructions : observe_page("A", i) /\ Quiet
    \/ get_page("A") /\ Quiet
    \/ is_active("A") /\ Quiet
    \/ \E t \in Tasks : close(t) /\ Quiet
    \/ \E t \in Tasks : InitReturns(t) /\ Quiet
    \/ \E t \in Tasks : InitRaises(t) /\ Quiet
    \/ \E t \in Tasks : ShutdownReturns(t) /\ Quiet
    \/ \E t \in Tasks : ShutdownRaises(t) /\ Quiet
    \/ GotoReturns("A") /\ Quiet
    \/ GotoRaises("A") /\ Quiet
    \/ SleepEnds("A") /\ Quiet
    \/ \E success \in BOOLEAN, url \in Urls : ActReturns("A", success, url) /\ Quiet
    \/ ActRaises("A") /\ Quiet
    \/ \E n \in 0 .. MaxElements : ObserveReturns("A", n) /\ Quiet
    \/ ObserveRaises("A") /\ Quiet
    \/ TitleReturns("A") /\ Quiet
    \/ TitleRaises("A") /\ Quiet

Spec == Init /\ [][Next]_vars

\* Two coroutines call the session API; their calls overlap at the awaits.
NextSession ==
    \/ \E t \in Tasks : get_page(t) /\ Quiet
    \/ \E t \in Tasks : close(t) /\ Quiet
    \/ \E t \in Tasks : is_active(t) /\ Quiet
    \/ \E t \in Tasks : InitReturns(t) /\ Quiet
    \/ \E t \in Tasks : InitRaises(t) /\ Quiet
    \/ \E t \in Tasks : ShutdownReturns(t) /\ Quiet
    \/ \E t \in Tasks : ShutdownRaises(t) /\ Quiet

SpecSession == Init /\ [][NextSession]_vars

\* what a sequential caller has seen: each completed call and its outcome
Logged(t) ==
    /\ hist' = IF tasks'[t].pc = "idle"
               THEN Append(hist, [op |-> tasks'[t].op, ret |-> tasks'[t].ret])
               ELSE hist
    /\ UNCHANGED handlers

Open == Len(hist) < MaxHist

\* One caller uses the session API, one call after the other, as the unit
\* tests of the session do.
NextSeq ==
    \/ Open /\ get_page("A") /\ Logged("A")
    \/ Open /\ close("A") /\ Logged("A")
    \/ Open /\ is_active("A") /\ Logged("A")
    \/ InitReturns("A") /\ Logged("A")
    \/ InitRaises("A") /\ Logged("A")
    \/ ShutdownReturns("A") /\ Logged("A")
    \/ ShutdownRaises("A") /\ Logged("A")

SpecSeq == Init /\ [][NextSeq]_vars

\* ---------------------------------------------------------------------
\* The chat front end: the message handler (task A) awaits the agent
\* runtime, which calls navigate_to while it runs; the action callbacks and
\* the stop callback (task B) run at any await of it.

\* os.kill(os.getpid(), SIGINT) has been called: the process is going down
Killed == \E t \in Tasks : handlers[t].kills

Free(t) == handlers[t].pc \in {"idle", "done"} /\ tasks[t].pc = "idle"

SessionQuiet == UNCHANGED <<stagehand, page, config, clients, pageUrl, calls, tasks>>

Resume(t, h) == handlers' = [handlers EXCEPT ![t] = h]

\* a callback that starts with `await browser_session.close()`
StartClose(t, name) ==
    /\ ~Killed
    /\ Free(t)
    /\ close(t)
    /\ Resume(t, IF tasks'[t].pc = "idle"
                 THEN after_close(Handler(name, "close"), TRUE, NoExc)
                 ELSE Handler(name, "close"))
    /\ UNCHANGED hist

main(t) ==
    /\ ~Killed
    /\ Free(t)
    /\ Resume(t, Handler("main", "progress_send"))
    /\ SessionQuiet
    /\ UNCHANGED hist

on_action(t) == StartClose(t, "on_action")

on_stop_action(t) == StartClose(t, "on_stop_action")

stop(t) == StartClose(t, "stop")

\* send() or update() of a chat message returns
SendReturns(t) ==
    /\ ~Killed
    /\ handlers[t].pc \in SendPcs
    /\ Resume(t, after_send(handlers[t]))
    /\ SessionQuiet
    /\ UNCHANGED hist

\* the agent runtime is between two tool calls
Running(t) == ~Killed /\ handlers[t].pc = "run"

\* a step of a tool the agent runtime called
AgentStep(t) == Running(t) /\ UNCHANGED <<hist, handlers>>

RunReturns(t) ==
    /\ Running(t)
    /\ tasks[t].pc = "idle"
    /\ Resume(t, main_after_run(handlers[t], TRUE, NoExc))
    /\ SessionQuiet
    /\ UNCHANGED hist

RunRaises(t, e) ==
    /\ Running(t)
    /\ tasks[t].pc = "idle"
    /\ Resume(t, main_after_run(handlers[t], FALSE, e))
    /\ SessionQuiet
    /\ UNCHANGED hist

\* close() returns to the callback that awaited it
CloseReturns(t) ==
    /\ ~Killed
    /\ handlers[t].pc = "close"
    /\ ShutdownReturns(t)
    /\ Resume(t, after_close(handlers[t], TRUE, NoExc))
    /\ UNCHANGED hist

CloseRaises(t) ==
    /\ ~Killed
    /\ handlers[t].pc = "close"
    /\ ShutdownRaises(t)
    /\ Resume(t, after_close(handlers[t], FALSE, tasks'[t].ret.exc))
    /\ UNCHANGED hist

NextUI ==
    \/ main("A")
    \/ RunReturns("A")
    \/ \E e \in RunErrors : RunRaises("A", e)
    \/ \E url \in Urls : navigate_to("A", url) /\ AgentStep("A")
    \/ InitReturns("A") /\ AgentStep("A")
    \/ InitRaises("A") /\ AgentStep("A")
    \/ GotoReturns("A") /\ AgentStep("A")
    \/ GotoRaises("A") /\ AgentStep("A")
    \/ SleepEnds("A") /\ AgentStep("A")
    \/ TitleReturns("A") /\ AgentStep("A")
    \/ TitleRaises("A") /\ AgentStep("A")
    \/ on_action("B")
    \/ on_stop_action("B")
    \/ stop("B")
    \/ CloseReturns("B")
    \/ CloseRaises("B")
    \/ \E t \in Tasks : SendReturns(t)

SpecUI == Init /\ [][NextUI]_vars

\* the chat front end delivers every message a callback sends: an awaited
\* send() or update() returns
SpecUILive == SpecUI /\ \A t \in Tasks : WF_vars(SendReturns(t))


\* ------------------------------------------------------------- properties
Tools == {"navigate_to", "click_element", "type_text", "observe_page"}
PageErrors == {GotoError, ActError, ObserveError, TitleError}

\* task t has returned from (or raised out of) a call of one of ops
Ended(t, ops) == tasks[t].pc = "idle" /\ tasks[t].op \in ops

\* task t starts a call of op in this step
Calls(t, op) ==
    /\ tasks[t].pc = "idle"
    /\ tasks'[t].op = op
    /\ (tasks'[t] # tasks[t] \/ hist' # hist)

HistIdx == 1 .. Len(hist)
NoCloseIn(i, j) == \A k \in i .. j : hist[k].op # "close"
GotPage(i) ==
    /\ hist[i].op = "get_page"
    /\ hist[i].ret.kind = "value"
    /\ hist[i].ret.value # None

\* C1: a tool call during which the page raised an exception ends by
\* returning a result with success = false whose detail is the text of an
\* exception the page raised; it never ends by raising.
C1_PageErrorBecomesFailedResult ==
    \A t \in Tasks :
        (Ended(t, Tools) /\ tasks[t].thrown \cap PageErrors # {}) =>
            /\ tasks[t].ret.kind = "value"
            /\ tasks[t].ret.value.success = FALSE
            /\ \E e \in tasks[t].thrown \cap PageErrors :
                   /\ Str(e) # ""
                   /\ tasks[t].ret.value.execution_details = Str(e)

\* C2: a tool call during which init() raised inside get_page() ends by
\* returning a result with success = false; it never ends by raising.
C2_InitFailureBecomesFailedResult ==
    \A t \in Tasks :
        (Ended(t, Tools) /\ InitError \in tasks[t].thrown) =>
            /\ tasks[t].ret.kind = "value"
            /\ tasks[t].ret.value.success = FALSE

\* C3: when the client's close() raises, the close() of the session ends
\* with both references None, is_active() false, and the error raised to
\* its caller.
C3_CloseClearsWhenShutdownRaises ==
    [][\A t \in Tasks :
          (/\ tasks[t].pc = "shutdown"
           /\ tasks'[t].pc = "idle"
           /\ CloseError \in tasks'[t].thrown) =>
              /\ stagehand' = None
              /\ page' = None
              /\ ~is_active_value(State)'
              /\ tasks'[t].ret = Raised(CloseError)]_vars

C3_Witness ==
    /\ Len(hist) = 2
    /\ GotPage(1)
    /\ hist[2] = [op |-> "close", ret |-> Raised(CloseError)]
    /\ stagehand = None
    /\ page = None
    /\ clients[1].state = "close_failed"

\* C4: between calls, the client and the page reference are both None or
\* both present.
C4_BothOrNeither ==
    tasks["A"].pc = "idle" => ((stagehand = None) <=> (page = None))

\* C5: without a close(), Stagehand() and init() are invoked at most once,
\* and a get_page() after one that returned a page, with no close() between
\* them, returns that same page.
C5_GetPageIdempotent ==
    /\ (tasks["A"].op # "close" /\ NoCloseIn(1, Len(hist))) =>
           (calls.ctor <= 1 /\ calls.init <= 1)
    /\ \A i \in HistIdx : \A j \in HistIdx :
           (i < j /\ GotPage(i) /\ hist[j].op = "get_page" /\ NoCloseIn(i, j)) =>
               /\ hist[j].ret = hist[i].ret
               /\ (j = Len(hist) /\ tasks["A"].pc = "idle") =>
                      hist[j].ret.value = page

C5_Witness ==
    /\ Len(hist) >= 2
    /\ hist[1] = [op |-> "get_page", ret |-> Value(1)]
    /\ hist[2] = [op |-> "get_page", ret |-> Value(1)]
    /\ calls = [ctor |-> 1, init |-> 1, close |-> 0]

\* C6: is_active() returns false before any get_page(), true after a
\* get_page() that returned a page while no close() followed, false after a
\* close() while no get_page() followed, and always the value of "client and
\* page are both present".
C6_Lifecycle ==
    \A j \in HistIdx :
        hist[j].op = "is_active" =>
            /\ hist[j].ret.kind = "value"
            /\ (\A i \in 1 .. j : hist[i].op # "get_page") =>
                   hist[j].ret.value = FALSE
            /\ (\E i \in 1 .. j : GotPage(i) /\ NoCloseIn(i, j)) =>
                   hist[j].ret.value = TRUE
            /\ (\E i \in 1 .. j : /\ hist[i].op = "close"
                                  /\ \A k \in i .. j : hist[k].op # "get_page") =>
                   hist[j].ret.value = FALSE
            /\ (j = Len(hist) /\ tasks["A"].pc = "idle") =>
                   hist[j].ret.value = (stagehand # None /\ page # None)

C6_Witness ==
    /\ Len(hist) = 4
    /\ GotPage(1)
    /\ hist[2] = [op |-> "is_active", ret |-> Value(TRUE)]
    /\ hist[3].op = "close"
    /\ hist[4] = [op |-> "is_active", ret |-> Value(FALSE)]

\* C7: after get_page(), close(), get_page() on a new session, Stagehand()
\* and init() have each been invoked exactly twice, and the second
\* get_page() holds the second client, which was never shut down, and
\* returns its page, not the first one.
C7_NewClientAfterClose ==
    (/\ Len(hist) = 3
     /\ tasks["A"].pc = "idle"
     /\ hist[1].op = "get_page"
     /\ hist[2].op = "close"
     /\ hist[3].op = "get_page") =>
        /\ calls.ctor = 2
        /\ calls.init = 2
        /\ stagehand = 2
        /\ clients[2].shutdown = FALSE
        /\ hist[3].ret.kind = "value" =>
               /\ hist[3].ret.value = 2
               /\ page = 2
               /\ hist[3].ret # hist[1].ret
               /\ clients[2].state = "started"

C7_Witness ==
    /\ tasks["A"].pc = "idle"
    /\ hist = << [op |-> "get_page", ret |-> Value(1)],
                 [op |-> "close", ret |-> Value(None)],
                 [op |-> "get_page", ret |-> Value(2)] >>
    /\ calls.ctor = 2
    /\ calls.init = 2

\* C8: close() called while no client is referenced returns without
\* raising and without suspending, requests no shutdown of any client, and
\* leaves both references None.
C8_CloseWithoutClient ==
    [][(Calls("A", "close") /\ stagehand = None) =>
          /\ tasks'["A"].pc = "idle"
          /\ tasks'["A"].ret = Value(None)
          /\ calls'.close = calls.close
          /\ clients' = clients
          /\ stagehand' = None
          /\ page' = None
          /\ ~is_active_value(State)']_vars

C8_Witness ==
    /\ Len(hist) >= 1
    /\ hist[Len(hist)] = [op |-> "close", ret |-> Value(None)]
    /\ calls.close = 0
    /\ stagehand = None
    /\ page = None

\* task t is suspended in the init() of the client the session references
Starting(t) ==
    /\ tasks[t].op = "get_page"
    /\ tasks[t].pc = "init"
    /\ stagehand = tasks[t].aw

\* C9: a get_page() called while another get_page() is suspended in init()
\* constructs no client and starts none: the run keeps the one client.
C9_OneConstructorWhenOverlapping ==
    [][\A t \in Tasks : \A u \in Tasks \ {t} :
          (Starting(t) /\ Calls(u, "get_page")) =>
              /\ calls'.ctor = calls.ctor
              /\ calls'.init = calls.init
              /\ clients' = clients
              /\ stagehand' = stagehand]_vars

C9_Witness ==
    /\ Starting("A")
    /\ Ended("B", {"get_page"})
    /\ tasks["B"].ret.kind = "value"
    /\ calls = [ctor |-> 1, init |-> 1, close |-> 0]

\* C10: when no close() was requested and every startup has succeeded, a
\* get_page() that has returned has returned a page, never None.
C10_OverlappingCallersGetThePage ==
    \A t \in Tasks :
        (/\ Ended(t, {"get_page"})
         /\ calls.close = 0
         /\ Len(clients) = 1
         /\ clients[1].state = "started") =>
            /\ tasks[t].ret.kind = "value"
            /\ tasks[t].ret.value # None


\* the result task t has returned from a call of one of ops
Returned(t, ops) == Ended(t, ops) /\ tasks[t].ret.kind = "value"
Result(t) == tasks[t].ret.value

\* C11: every result of navigate_to has page_changed equal to success: true
\* on every successful call, false on every failed one.
C11_NavigatePageChanged ==
    \A t \in Tasks :
        Ended(t, {"navigate_to"}) =>
            /\ tasks[t].ret.kind = "value"
            /\ Result(t).page_changed = Result(t).success
            /\ Result(t).success = (tasks[t].thrown = {} /\ Result(t).current_url # NoneStr)

C11_Witness ==
    /\ Returned("A", {"navigate_to"})
    /\ Result("A").success
    /\ Result("A").page_changed
    /\ Result("A").current_url = tasks["A"].arg

\* C12: in click_element the URL read before act() is the page's URL when
\* act() is called, the URL read after it is the page's URL after act(),
\* and a successful result has page_changed = (the two differ) and
\* current_url = the URL after.
C12_ClickPageChanged ==
    [][\A t \in Tasks :
          tasks[t].op = "click_element" =>
              /\ tasks[t].pc = "act" =>
                     tasks[t].urlBefore = pageUrl[tasks[t].pg]
              /\ tasks[t].pc = "title" =>
                     tasks[t].cu = pageUrl[tasks[t].pg]
              /\ (/\ tasks[t].pc = "title"
                  /\ tasks'[t].pc = "idle"
                  /\ tasks'[t].ret.kind = "value"
                  /\ tasks'[t].ret.value.success) =>
                     /\ tasks'[t].ret.value.page_changed =
                            (tasks[t].urlBefore # tasks[t].cu)
                     /\ tasks'[t].ret.value.current_url = tasks[t].cu]_vars

C12_Witness ==
    /\ Returned("A", {"click_element"})
    /\ Result("A").success
    /\ Result("A").page_changed
    /\ Result("A").current_url = "https://a.com/done"
    /\ pageUrl[1] = "https://a.com/done"

\* C13: every result of click_element with success = false has
\* page_changed = false.
C13_FailedClickNotChanged ==
    \A t \in Tasks :
        (Returned(t, {"click_element"}) /\ ~Result(t).success) =>
            ~Result(t).page_changed

\* C14: every result of type_text has page_changed = false.
C14_TypeNeverChanged ==
    \A t \in Tasks :
        Returned(t, {"type_text"}) => Result(t).page_changed = FALSE

C14_Witness ==
    /\ Returned("A", {"type_text"})
    /\ Result("A").success
    /\ Result("A").current_url = "https://a.com/done"
    /\ ~Result("A").page_changed

\* the elements page.observe() returned to task t
Elements(n) == [kind |-> "elements", n |-> n]

\* C15: when observe() has returned N elements and title() returns,
\* observe_page returns success = true, action_type observe,
\* page_changed = false, the N elements and "Found N observable elements
\* on the page".
C15_ObserveResult ==
    [][\A t \in Tasks :
          (/\ tasks[t].op = "observe_page"
           /\ tasks[t].pc = "title"
           /\ tasks[t].res.kind = "elements"
           /\ tasks'[t].pc # "title"
           /\ TitleError \notin tasks'[t].thrown) =>
              /\ tasks'[t].pc = "idle"
              /\ tasks'[t].ret.kind = "value"
              /\ tasks'[t].ret.value.success
              /\ tasks'[t].ret.value.action_type = "observe"
              /\ ~tasks'[t].ret.value.page_changed
              /\ tasks'[t].ret.value.result_data = tasks[t].res
              /\ tasks'[t].ret.value.execution_details =
                     FoundDetail(tasks[t].res.n)]_vars

C19_StartupErrorPropagates ==
    [][\A t \in Tasks :
          (/\ tasks[t].op = "get_page"
           /\ tasks[t].pc = "init"
           /\ tasks'[t].pc = "idle"
           /\ InitError \in tasks'[t].thrown) =>
              /\ tasks'[t].ret = Raised(InitError)
              /\ page' = page]_vars

C19_Witness ==
    /\ Len(hist) >= 1
    /\ hist[Len(hist)] = [op |-> "get_page", ret |-> Raised(InitError)]
    /\ clients[Len(clients)].state = "failed"
    /\ page = None

\* C20: the page reference, when present, is the page of the referenced
\* client, and a client is constructed only in a step that starts with no
\* client referenced; that step constructs exactly one client and
\* references it.
C20_OnePairAtATime ==
    [][/\ page # None => page = stagehand
       /\ page' # None => page' = stagehand'
       /\ calls'.ctor # calls.ctor =>
              /\ stagehand = None
              /\ calls'.ctor = calls.ctor + 1
              /\ Len(clients') = Len(clients) + 1
              /\ stagehand' = Len(clients')]_vars

C20_Witness ==
    /\ tasks["A"].op = "get_page"
    /\ tasks["A"].pc = "init"
    /\ tasks["B"].op = "close"
    /\ tasks["B"].pc = "shutdown"
    /\ tasks["B"].aw = 1
    /\ stagehand = 2
    /\ calls.ctor = 2


\* ------------------------------------------------- properties of main.py
Done(t, names) == handlers[t].h \in names /\ handlers[t].pc = "done"

\* C17: once Runner.run has ended, main() is suspended in the send() of the
\* final message or has ended; when it has ended it returned, and the last
\* message it sent is the success message with the final output if the run
\* returned and the error message with the exception's text if it raised.
C17_MainEndsWithFinalMessage ==
    \A t \in Tasks :
        LET h == handlers[t] IN
        h.h = "main" =>
            /\ h.run = "returned" => h.pc \in {"final_send", "done"}
            /\ h.run = "raised" => h.pc \in {"error_send", "done"} /\ h.err \in RunErrors
            /\ h.pc = "done" =>
                   /\ h.ret = "returned"
                   /\ h.run \in {"returned", "raised"}
                   /\ Len(h.out) = 2
                   /\ h.out[1] = WorkingText
                   /\ h.run = "returned" => h.out[2] = SuccessMsg(FinalOutput)
                   /\ h.run = "raised" => h.out[2] = ErrorMsg(h.err)

C17_Witness ==
    /\ Done("A", {"main"})
    /\ handlers["A"].run = "raised"
    /\ handlers["A"].out[2] =
           "An error occurred during automation: Error: Max turns (20) exceeded"
    /\ calls.init >= 1

\* C18: every "Close Browser", "Stop Session" and stop callback that has
\* ended has awaited close() and has sent one chat message: a closed-safely
\* message when close() returned, a message with the error's text when
\* close() raised.
C18_CloseIsReportedToUser ==
    \A t \in Tasks :
        LET h == handlers[t] IN
        Done(t, {"on_action", "on_stop_action", "stop"}) =>
            /\ h.closed \in {"returned", "raised"}
            /\ Len(h.out) = 1
            /\ h.closed = "returned" => h.out[1] \in {ClosedMsg, GoodbyeMsg}
            /\ h.closed = "raised" => h.out[1] = CloseErrorMsg(h.err)


\* --------------------------------------- properties of the failure handlers
HandlerTools == {"click_element", "type_text", "observe_page"}

\* the step ends the call of task t with a returned result that has
\* success = false and the text of e as its detail
FailedWith(t, e) ==
    /\ tasks'[t].pc = "idle"
    /\ tasks'[t].ret.kind = "value"
    /\ ~tasks'[t].ret.value.success
    /\ tasks'[t].ret.value.execution_details = Str(e)

\* the session references a client that has no page
NoPageYet == stagehand # None /\ page = None

\* C21: when the except block of click_element, type_text or observe_page
\* cannot reach the page (its get_page() raises, its get_page() returns
\* None, or its page.title() raises), the call still ends by returning a
\* result with success = false and the caught exception's text as detail.
C21_HandlerNeverRaises ==
    [][\A t \in Tasks :
          /\ (tasks[t].op \in HandlerTools /\ tasks[t].pc = "exc_init"
                  /\ InitRaises(t)) => FailedWith(t, tasks[t].exc)
          /\ (tasks[t].op \in HandlerTools /\ tasks[t].pc = "exc_title"
                  /\ TitleRaises(t)) => FailedWith(t, tasks[t].exc)
          /\ (NoPageYet /\ \E i \in Instructions : click_element(t, i)) =>
                 FailedWith(t, NoneAttrError("url"))
          /\ (NoPageYet /\ tasks[t].op \in HandlerTools /\ ActRaises(t)) =>
                 FailedWith(t, ActError)
          /\ (NoPageYet /\ tasks[t].op \in HandlerTools /\ ObserveRaises(t)) =>
                 FailedWith(t, ObserveError)]_vars


\* C22: every result of navigate_to with success = false has current_url,
\* page_title, result_data and action_taken None and instruction
\* "navigate to " followed by the requested URL.
C22_FailedNavigateFields ==
    \A t \in Tasks :
        (Returned(t, {"navigate_to"}) /\ ~Result(t).success) =>
            /\ Result(t).current_url = NoneStr
            /\ Result(t).page_title = NoneStr
            /\ Result(t).result_data = NoRes
            /\ Result(t).action_taken = NoneStr
            /\ Result(t).instruction = "navigate to " \o tasks[t].arg

\* the page had been obtained and only goto() raised
C22_Witness ==
    /\ Returned("A", {"navigate_to"})
    /\ tasks["A"].thrown = {GotoError}
    /\ page = 1
    /\ tasks["A"].arg = "https://a.com"
    /\ Result("A").instruction = "navigate to https://a.com"
    /\ Result("A").execution_details = Str(GotoError)
    /\ Result("A").current_url = NoneStr


\* C23: when act() or observe() raised and the except block reaches the
\* page (get_page() gave a page and title() returns), the call returns a
\* failed result with the page's URL and title, result_data and
\* action_taken None, and the instruction unchanged.
C23_FailedResultCarriesPage ==
    [][\A t \in Tasks :
          (/\ tasks[t].op \in HandlerTools
           /\ tasks[t].pc = "exc_title"
           /\ tasks[t].exc \in {ActError, ObserveError}
           /\ TitleReturns(t)) =>
              /\ FailedWith(t, tasks[t].exc)
              /\ tasks'[t].ret.value.current_url = pageUrl[tasks[t].pg]
              /\ tasks'[t].ret.value.page_title = TitleOf(pageUrl[tasks[t].pg])
              /\ tasks'[t].ret.value.result_data = NoRes
              /\ tasks'[t].ret.value.action_taken = NoneStr
              /\ tasks'[t].ret.value.instruction = tasks[t].arg]_vars

\* --------------------------------------------------- properties of act()
ClickOrType == {"click_element", "type_text"}

\* the one invocation of act() the tools make
OneAct(t) == <<[instruction |-> tasks[t].arg, timeout_ms |-> 10000]>>

\* the result reports what the library's result res reports
AsLibrary(r, res) ==
    /\ r.success = res.success
    /\ r.execution_details = res.message
    /\ r.action_taken = res.action

\* C24 as claimed: every click_element and type_text call in which act()
\* returned ends by returning a result with the library's success, message
\* and action, after one act(instruction, timeout_ms=10000).
C24_ActResultReported ==
    [][\A t \in Tasks :
          (/\ tasks[t].op \in ClickOrType
           /\ tasks[t].res.kind = "act"
           /\ tasks'[t].pc = "idle") =>
              /\ tasks'[t].ret.kind = "value"
              /\ AsLibrary(tasks'[t].ret.value, tasks[t].res)
              /\ tasks'[t].acts = OneAct(t)]_vars

\* C24 as amended: the same when the title() read that follows act() in the
\* try block returns; and every ended click_element or type_text call has
\* invoked act() at most once, exactly once when act() was reached, always
\* with the instruction and timeout_ms=10000.
C24_ActResultReportedWhenTitleReturns ==
    [][\A t \in Tasks :
          /\ (/\ tasks[t].op \in ClickOrType
              /\ tasks[t].res.kind = "act"
              /\ tasks[t].pc = "title"
              /\ TitleReturns(t)) =>
                 /\ tasks'[t].pc = "idle"
                 /\ tasks'[t].ret.kind = "value"
                 /\ AsLibrary(tasks'[t].ret.value, tasks[t].res)
                 /\ tasks'[t].acts = OneAct(t)
          /\ (tasks[t].op \in ClickOrType /\ tasks[t].res.kind = "act") =>
                 tasks[t].acts = OneAct(t)
          /\ tasks'[t].op \in ClickOrType =>
                 tasks'[t].acts \in {<<>>, OneAct(t)}
          /\ tasks'[t].op \notin ClickOrType => tasks'[t].acts = <<>>]_vars

C24_Witness ==
    /\ Returned("A", {"click_element"})
    /\ ~Result("A").success
    /\ Result("A").execution_details = "Action failed"
    /\ Result("A").action_taken = "click"
    /\ Result("A").result_data.kind = "act"
    /\ tasks["A"].acts =
           <<[instruction |-> "click the submit button", timeout_ms |-> 10000]>>


\* ------------------------------------------- properties of the session
\* client c was constructed from the configuration cfg
BuiltFrom(c, cfg) ==
    /\ clients[c].headless = cfg.headless
    /\ clients[c].width = cfg.viewport_width
    /\ clients[c].height = cfg.viewport_height
    /\ clients[c].dom_settle_timeout_ms = cfg.timeout

\* C25: the session's configuration is always the one it was constructed
\* with, and every client was constructed from it.
C25_ConfigUnchanged ==
    /\ config = BrowserConfig
    /\ \A c \in 1 .. Len(clients) : BuiltFrom(c, BrowserConfig)

C25_Witness ==
    /\ Len(clients) = 2
    /\ calls.close >= 1
    /\ Returned("A", Tools)
    /\ stagehand = 2
    /\ clients[2].dom_settle_timeout_ms = 5000
    /\ clients[2].headless = FALSE

\* C26: a get_page() that raised the error of init() leaves no client
\* referenced, and the get_page() that follows it raises or returns a page,
\* never None.
C26_FailedClientNotKept ==
    /\ (Ended("A", {"get_page"}) /\ tasks["A"].ret = Raised(InitError)) =>
           stagehand = None
    /\ \A i \in HistIdx :
           (/\ i < Len(hist)
            /\ hist[i] = [op |-> "get_page", ret |-> Raised(InitError)]
            /\ hist[i + 1].op = "get_page") =>
               hist[i + 1].ret # Value(None)

\* the tool of task t holds a page and is suspended in its try block
InFlight(t) ==
    /\ tasks[t].op \in Tools
    /\ tasks[t].pc \in {"goto", "sleep", "sleep1", "sleep2", "act", "observe", "title"}
    /\ tasks[t].pg # None

\* a close() has completed on the client whose page task t holds, and the
\* session references nothing
ClosedUnder(t) ==
    /\ clients[tasks[t].pg].state \in {"closed", "close_failed"}
    /\ stagehand = None
    /\ page = None

\* C27: a tool call that is in flight when close() completes constructs no
\* client in any of its later steps: the session stays inactive.
C27_InFlightToolDoesNotReopen ==
    [][\A t \in Tasks :
          (InFlight(t) /\ ClosedUnder(t)) =>
              /\ calls'.ctor = calls.ctor
              /\ stagehand' = None
              /\ page' = None]_vars

\* C28: a close() that clears the client reference clears the client whose
\* shutdown it requested, and no client leaves the session without its
\* shutdown having been requested.
C28_ClearedClientWasShutDown ==
    [][/\ \A t \in Tasks :
              (/\ tasks[t].op = "close"
               /\ tasks[t].pc = "shutdown"
               /\ tasks'[t].pc = "idle"
               /\ stagehand # None) => stagehand = tasks[t].aw
       /\ (stagehand # None /\ stagehand' # stagehand) =>
              clients[stagehand].shutdown]_vars

\* C29: a step of a tool call on an active session, taken while no close()
\* is running, leaves the client and the page reference as they are.
C29_ToolKeepsSession ==
    [][\A t \in Tasks :
          (/\ tasks'[t].op \in Tools
           /\ tasks'[t] # tasks[t]
           /\ \A u \in Tasks : tasks[u].pc # "shutdown"
           /\ stagehand # None
           /\ page # None) =>
              /\ stagehand' = stagehand
              /\ page' = page
              /\ calls' = calls]_vars

\* a failed tool call on a session that was never closed
C29_Witness ==
    /\ Returned("A", {"click_element"})
    /\ ~Result("A").success
    /\ tasks["A"].thrown = {ActError}
    /\ calls = [ctor |-> 1, init |-> 1, close |-> 0]
    /\ stagehand = 1
    /\ page = 1

\* stop() calls os.kill once the close() attempt is over and not
\* before: after close() returned it sends the goodbye message and then
\* signals; after close() raised it has printed the error, sent no
\* message, and signalled.
StopSignalsWhenCloseIsOver ==
    \A t \in Tasks :
        LET h == handlers[t] IN
        h.h \in {"stop", "on_stop_action"} =>
            /\ h.kills <=> h.pc = "done"
            /\ h.kills => h.closed \in {"returned", "raised"}
            /\ h.closed = "returned" =>
                   /\ h.pc \in {"goodbye_send", "done"}
                   /\ h.printed = <<>>
                   /\ h.pc = "done" => h.out = <<GoodbyeMsg>>
            /\ h.closed = "raised" =>
                   /\ h.kills
                   /\ h.printed = <<CleanupPrint(CloseError)>>
                   /\ h.out = <<>>

\* C30, as a whole: the above in every state, and a stop() whose close()
\* attempt is over goes on to call os.kill.
C30_StopAlwaysSignals ==
    /\ []StopSignalsWhenCloseIsOver
    /\ \A t \in Tasks :
           (handlers[t].h \in {"stop", "on_stop_action"}
                /\ handlers[t].closed # "none") ~> handlers[t].kills

C30_Witness ==
    /\ Done("B", {"stop"})
    /\ handlers["B"].closed = "raised"
    /\ handlers["B"].kills
    /\ handlers["B"].printed = <<"Error during cleanup: Close failed">>
    /\ handlers["B"].out = <<>>
    /\ clients[1].state = "close_failed"

====
